---- MODULE Spec2Model ----
(***************************************************************************)
(* Customer feedback system.                                               *)
(*   src/Task2/user.py   the submit path: validate the form, derive three  *)
(*                       texts from the provider, build the entry, insert  *)
(*                       it into the MongoDB collection.                   *)
(*   src/Task2/admin.py  the dashboard: load feedback_data.json, compute   *)
(*                       the metrics, the histogram, the daily series and  *)
(*                       the filtered, sorted list.                        *)
(* Spec      : concurrent script runs of user.py main().                   *)
(* SpecAdmin : script runs of admin.py main() over a bounded set of files. *)
(***************************************************************************)
EXTENDS Integers, Sequences, FiniteSets, TLC

(* ------------------------------ bounds -------------------------------- *)
\* last value of the wall clock (the clock stops there)
MaxClock == 1
\* clock ticks in one calendar day
TicksPerDay == 2
\* most records in feedback_data.json
MaxFileRecords == 2

(* ------------------------- program constants -------------------------- *)
\* st.slider(min_value=1, max_value=5, value=5)
MinRating == 1
MaxRating == 5
DefaultRating == 5
\* if rating >= 4: st.balloons()
BalloonRating == 4
\* df['rating'] >= 4 and df['rating'] <= 2
PositiveRating == 4
NegativeRating == 2

\* Two concurrent script runs of user.py main() (one Streamlit session thread each).
Runs == {"r1", "r2"}
Ratings == MinRating..MaxRating

\* Text typed into the review box: sequences of characters.
Reviews == { <<>>, <<" ">>, <<" ", " ">>, <<" ", "a", " ">> }

\* The ratings the submit path is driven with: both ends of the slider.
SubmitRatings == {MinRating, MaxRating}

ResponseFallback ==
    "Thank you for your feedback! We appreciate you taking the time to share your experience with us."
SummaryFallback == "Customer feedback received"
\* (the two bullet characters of the source are written "*" here)
ActionsFallback ==
    "* Review and address customer feedback\n* Follow up with customer if needed"

Derivations == {"response", "summary", "actions"}

VARIABLES
    groqKey,     \* GROQ_API_KEY is set (secrets or environment)
    mongoUri,    \* MONGODB_URI is set (secrets or environment)
    mongoUp,     \* the MongoDB server answers insert_one
    clock,       \* datetime.now()
    collection,  \* db.feedback, in insertion order
    run,         \* per script run of user.py: position, locals, what it showed
    file,        \* feedback_data.json
    admin        \* what the last run of admin.py main() rendered

vars == <<groqKey, mongoUri, mongoUp, clock, collection, run, file, admin>>

(* ------------------------------ helpers ------------------------------- *)
IsSpace(c) == c = " "

RECURSIVE LStrip(_)
LStrip(s) == IF s # <<>> /\ IsSpace(Head(s)) THEN LStrip(Tail(s)) ELSE s

RECURSIVE RStrip(_)
RStrip(s) ==
    IF s # <<>> /\ IsSpace(s[Len(s)]) THEN RStrip(SubSeq(s, 1, Len(s) - 1)) ELSE s

\* str.strip()
Strip(s) == RStrip(LStrip(s))

\* datetime.now().strftime("%Y%m%d%H%M%S%f"): the date digits, then the time digits
Strftime(t) == <<t \div TicksPerDay, t % TicksPerDay>>

\* datetime.now().isoformat(): "<date>T<time>"
IsoFormat(t) == [date |-> t \div TicksPerDay, time |-> t % TicksPerDay]

\* pd.to_datetime(df['timestamp'])
ToDatetime(iso) == iso.date * TicksPerDay + iso.time

\* df['timestamp'].dt.date
DtDate(dt) == dt \div TicksPerDay

(* ---------------------------- user.py --------------------------------- *)
ReviewIsBlank_NoStrip(review) == review = <<>>

\* user.py:151  if not review.strip()
ReviewIsBlank(review) == Strip(review) = <<>>

\* user.py:38-48  get_groq_client: TRUE when a client is returned, FALSE on st.stop()
GetGroqClient == groqKey

\* user.py:18-28  get_mongo_client: TRUE when a client is returned, FALSE on st.stop()
GetMongoClient == mongoUri

\* user.py:75-85  try: create(...).strip()  except Exception: fallback
GenerateAiResponseText(fault) == IF fault THEN ResponseFallback ELSE "llm_response"

\* user.py:96-106
GenerateSummaryText(fault) == IF fault THEN SummaryFallback ELSE "llm_summary"

\* user.py:120-130
GenerateActionsText(fault) == IF fault THEN ActionsFallback ELSE "llm_actions"

\* user.py:161-169  feedback_entry; now1 and now2 are the two datetime.now() reads
FeedbackEntry(now1, now2, rating, review, resp, summ, acts) ==
    [ id          |-> Strftime(now1),
      timestamp   |-> IsoFormat(now2),
      rating      |-> rating,
      review      |-> review,
      ai_response |-> resp,
      ai_summary  |-> summ,
      ai_actions  |-> acts ]

\* The document as MongoDB stores it: insert_one adds the store-assigned _id.
WithObjectId(doc, oid) ==
    [ oid         |-> oid,
      id          |-> doc.id,
      timestamp   |-> doc.timestamp,
      rating      |-> doc.rating,
      review      |-> doc.review,
      ai_response |-> doc.ai_response,
      ai_summary  |-> doc.ai_summary,
      ai_actions  |-> doc.ai_actions ]

\* A stored document without its _id: the fields the submit path built.
EntryOf(stored) ==
    [ id          |-> stored.id,
      timestamp   |-> stored.timestamp,
      rating      |-> stored.rating,
      review      |-> stored.review,
      ai_response |-> stored.ai_response,
      ai_summary  |-> stored.ai_summary,
      ai_actions  |-> stored.ai_actions ]

InsertOne_Swallow(coll, doc, up) ==
    [ ok   |-> TRUE,
      coll |-> IF up THEN Append(coll, WithObjectId(doc, Len(coll) + 1)) ELSE coll ]

\* user.py:55-57  save_data: collection.insert_one(feedback_entry); raises when
\* the server cannot be reached (ok = FALSE), and then nothing is written
InsertOne(coll, doc, up) ==
    [ ok   |-> up,
      coll |-> IF up THEN Append(coll, WithObjectId(doc, Len(coll) + 1)) ELSE coll ]

FreshRun ==
    [ pc          |-> "form",
      rating      |-> DefaultRating,
      review      |-> <<>>,
      ai_response |-> "",
      ai_summary  |-> "",
      ai_actions  |-> "",
      entry       |-> <<>>,
      calls       |-> {},
      faults      |-> {},
      shown       |-> {},
      saves       |-> 0,
      outcome     |-> "none" ]

\* user.py:148-153  the form is submitted; a blank review is rejected
SubmitForm(r, rating, review) ==
    /\ run[r].pc = "form"
    /\ run' = [run EXCEPT ![r] =
                 IF ReviewIsBlank(review)
                 THEN [@ EXCEPT !.rating = rating, !.review = review,
                                !.shown = @ \cup {"error_review"},
                                !.outcome = "rejected", !.pc = "done"]
                 ELSE [@ EXCEPT !.rating = rating, !.review = review,
                                !.pc = "response"]]
    /\ UNCHANGED <<groqKey, mongoUri, mongoUp, clock, collection, file, admin>>

\* user.py:59-85  generate_ai_response
GenerateAiResponse(r) ==
    /\ run[r].pc = "response"
    /\ \/ /\ ~GetGroqClient
          /\ run' = [run EXCEPT ![r] =
                       [@ EXCEPT !.faults = @ \cup {"response"},
                                 !.shown = @ \cup {"error_groq_key"},
                                 !.outcome = "stopped_no_groq_key", !.pc = "done"]]
       \/ /\ GetGroqClient
          /\ \E fault \in BOOLEAN :
               run' = [run EXCEPT ![r] =
                         [@ EXCEPT !.calls = @ \cup {"response"},
                                   !.faults = IF fault THEN @ \cup {"response"} ELSE @,
                                   !.shown = IF fault THEN @ \cup {"warn_response"} ELSE @,
                                   !.ai_response = GenerateAiResponseText(fault),
                                   !.pc = "summary"]]
    /\ UNCHANGED <<groqKey, mongoUri, mongoUp, clock, collection, file, admin>>

\* user.py:87-106  generate_summary
GenerateSummary(r) ==
    /\ run[r].pc = "summary"
    /\ \/ /\ ~GetGroqClient
          /\ run' = [run EXCEPT ![r] =
                       [@ EXCEPT !.faults = @ \cup {"summary"},
                                 !.shown = @ \cup {"error_groq_key"},
                                 !.outcome = "stopped_no_groq_key", !.pc = "done"]]
       \/ /\ GetGroqClient
          /\ \E fault \in BOOLEAN :
               run' = [run EXCEPT ![r] =
                         [@ EXCEPT !.calls = @ \cup {"summary"},
                                   !.faults = IF fault THEN @ \cup {"summary"} ELSE @,
                                   !.shown = IF fault THEN @ \cup {"warn_summary"} ELSE @,
                                   !.ai_summary = GenerateSummaryText(fault),
                                   !.pc = "actions"]]
    /\ UNCHANGED <<groqKey, mongoUri, mongoUp, clock, collection, file, admin>>

\* user.py:108-130  generate_actions
GenerateActions(r) ==
    /\ run[r].pc = "actions"
    /\ \/ /\ ~GetGroqClient
          /\ run' = [run EXCEPT ![r] =
                       [@ EXCEPT !.faults = @ \cup {"actions"},
                                 !.shown = @ \cup {"error_groq_key"},
                                 !.outcome = "stopped_no_groq_key", !.pc = "done"]]
       \/ /\ GetGroqClient
          /\ \E fault \in BOOLEAN :
               run' = [run EXCEPT ![r] =
                         [@ EXCEPT !.calls = @ \cup {"actions"},
                                   !.faults = IF fault THEN @ \cup {"actions"} ELSE @,
                                   !.shown = IF fault THEN @ \cup {"warn_actions"} ELSE @,
                                   !.ai_actions = GenerateActionsText(fault),
                                   !.pc = "build"]]
    /\ UNCHANGED <<groqKey, mongoUri, mongoUp, clock, collection, file, admin>>

\* user.py:161-169  the entry is built; the clock is read twice and may move between
BuildEntry(r) ==
    /\ run[r].pc = "build"
    /\ \E now2 \in {t \in {clock, clock + 1} : t <= MaxClock} :
         /\ clock' = now2
         /\ run' = [run EXCEPT ![r] =
                      [@ EXCEPT !.entry = <<FeedbackEntry(clock, now2, run[r].rating,
                                                        run[r].review, run[r].ai_response,
                                                        run[r].ai_summary,
                                                        run[r].ai_actions)>>,
                                !.pc = "save"]]
    /\ UNCHANGED <<groqKey, mongoUri, mongoUp, collection, file, admin>>

\* user.py:171-178  save_data, then the success message
SaveData(r) ==
    /\ run[r].pc = "save"
    /\ \/ /\ ~GetMongoClient
          /\ run' = [run EXCEPT ![r] =
                       [@ EXCEPT !.shown = @ \cup {"error_mongo_uri"},
                                 !.outcome = "stopped_no_mongo_uri", !.pc = "done"]]
          /\ UNCHANGED collection
       \/ /\ GetMongoClient
          /\ LET res == InsertOne(collection, run[r].entry[1], mongoUp) IN
               /\ collection' = res.coll
               /\ run' = [run EXCEPT ![r] =
                            IF res.ok
                            THEN [@ EXCEPT !.saves = @ + 1,
                                           !.shown = @ \cup {"success", "info_response"}
                                               \cup (IF run[r].rating >= BalloonRating
                                                     THEN {"balloons"} ELSE {}),
                                           !.outcome = "persisted", !.pc = "done"]
                            ELSE [@ EXCEPT !.shown = @ \cup {"exception"},
                                           !.outcome = "store_exception", !.pc = "done"]]
    /\ UNCHANGED <<groqKey, mongoUri, mongoUp, clock, file, admin>>

\* The wall clock advances.
Tick ==
    /\ clock < MaxClock
    /\ clock' = clock + 1
    /\ UNCHANGED <<groqKey, mongoUri, mongoUp, collection, run, file, admin>>

(* ---------------------------- admin.py -------------------------------- *)
NoFile == [exists |-> FALSE, valid |-> FALSE, data |-> <<>>]
CorruptFile == [exists |-> TRUE, valid |-> FALSE, data |-> <<>>]
JsonFile(data) == [exists |-> TRUE, valid |-> TRUE, data |-> data]

\* The instants the records of feedback_data.json were created at: two on one
\* day, one on the next.
FileTimes == {0, 1, TicksPerDay}

\* The records feedback_data.json may hold: entries as the submit path builds them.
FileRecords ==
    { FeedbackEntry(t, t, rating, <<"a">>, "llm_response", "llm_summary", "llm_actions") :
        t \in FileTimes, rating \in Ratings }

AllFiles ==
    {NoFile, CorruptFile}
        \cup { JsonFile(d) : d \in UNION { [1..n -> FileRecords] : n \in 0..MaxFileRecords } }

\* st.selectbox("Sort by", options=[...])
SortOptions == {"Newest First", "Oldest First", "Highest Rating", "Lowest Rating"}

\* st.multiselect("Filter by Rating", options=[1, 2, 3, 4, 5])
FilterChoices == SUBSET Ratings

\* admin.py:20-24  load_data: the parsed file, [] when the file does not exist;
\* json.load raises on a file that is not JSON (ok = FALSE)
AdminLoadData(f) ==
    IF f.exists
    THEN [ok |-> f.valid, data |-> f.data]
    ELSE [ok |-> TRUE, data |-> <<>>]

\* admin.py:27-35  get_dataframe: pd.DataFrame() for no data, else one row per
\* record (index = position), timestamp parsed, date column added
GetDataframe(data) ==
    [ i \in 1..Len(data) |->
        [ idx         |-> i - 1,
          id          |-> data[i].id,
          timestamp   |-> ToDatetime(data[i].timestamp),
          date        |-> DtDate(ToDatetime(data[i].timestamp)),
          rating      |-> data[i].rating,
          review      |-> data[i].review,
          ai_response |-> data[i].ai_response,
          ai_summary  |-> data[i].ai_summary,
          ai_actions  |-> data[i].ai_actions ] ]

DfEmpty_Never(df) == FALSE

\* admin.py:52  df.empty
DfEmpty(df) == Len(df) = 0

RECURSIVE SumRatings(_)
\* df['rating'].sum(), the numerator of .mean()
SumRatings(df) == IF df = <<>> THEN 0 ELSE Head(df).rating + SumRatings(Tail(df))

\* admin.py:68  len(df[df['rating'] >= 4])
CountPositive(df) == Len(SelectSeq(df, LAMBDA row : row.rating >= PositiveRating))

\* admin.py:73  len(df[df['rating'] <= 2])
CountNegative(df) == Len(SelectSeq(df, LAMBDA row : row.rating <= NegativeRating))

\* admin.py:61-76  the four metrics; a quotient is kept as numerator and denominator
KeyMetrics(df) ==
    [ total        |-> Len(df),
      avg_rating   |-> [num |-> SumRatings(df), den |-> Len(df)],
      positive_pct |-> [num |-> CountPositive(df) * 100, den |-> Len(df)],
      negative     |-> CountNegative(df) ]

RECURSIVE CountBy(_, _)
\* value_counts / groupby(...).size(): a count for each key that occurs, no others
CountBy(df, col) ==
    IF df = <<>> THEN [k \in {} |-> 0]
    ELSE LET rest == CountBy(Tail(df), col)
             k == Head(df)[col]
         IN  IF k \in DOMAIN rest THEN [rest EXCEPT ![k] = @ + 1]
             ELSE [x \in DOMAIN rest \cup {k} |-> IF x = k THEN 1 ELSE rest[x]]

RatingCounts_Drop(df) == CountBy(IF df = <<>> THEN df ELSE Tail(df), "rating")

\* admin.py:87  df['rating'].value_counts().sort_index()
RatingCounts(df) == CountBy(df, "rating")

\* admin.py:101  df.groupby('date').size()
FeedbackByDate(df) == CountBy(df, "date")

\* admin.py:162  df[df['rating'].isin(filter_rating)]
FilterRating(df, filter_rating) == SelectSeq(df, LAMBDA row : row.rating \in filter_rating)

Perms(n) == { p \in [1..n -> 1..n] : \A i, j \in 1..n : i # j => p[i] # p[j] }

InOrder(a, b, ascending) == IF ascending THEN a <= b ELSE a >= b

SortValues_Ascending(rows, by, ascending) ==
    { [i \in 1..Len(rows) |-> rows[p[i]]] :
        p \in { q \in Perms(Len(rows)) :
                  \A i \in 1..(Len(rows) - 1) : rows[q[i]][by] <= rows[q[i + 1]][by] } }

\* DataFrame.sort_values(by, ascending): kind defaults to 'quicksort', which is not
\* stable, so rows that tie on the key may come out in any order
SortValues(rows, by, ascending) ==
    { [i \in 1..Len(rows) |-> rows[p[i]]] :
        p \in { q \in Perms(Len(rows)) :
                  \A i \in 1..(Len(rows) - 1) :
                      InOrder(rows[q[i]][by], rows[q[i + 1]][by], ascending) } }

\* admin.py:165-172  the sort the selectbox asks for
ApplySort(rows, sort_by) ==
    CASE sort_by = "Newest First"   -> SortValues(rows, "timestamp", FALSE)
      [] sort_by = "Oldest First"   -> SortValues(rows, "timestamp", TRUE)
      [] sort_by = "Highest Rating" -> SortValues(rows, "rating", FALSE)
      [] sort_by = "Lowest Rating"  -> SortValues(rows, "rating", TRUE)

AdminNotRun ==
    [ view |-> "not_run", metrics |-> <<>>, rating_counts |-> <<>>,
      feedback_by_date |-> <<>>, filter_rating |-> {}, sort_by |-> "",
      df |-> <<>>, displayed |-> <<>> ]

\* admin.py:38-232  one script run of main() with the widgets set to filter_rating
\* and sort_by; the page is rendered from nothing each run
AdminMain(filter_rating, sort_by) ==
    /\ admin.view = "not_run"
    /\ LET loaded == AdminLoadData(file)
           df == GetDataframe(loaded.data)
       IN  IF ~loaded.ok
           THEN admin' = [AdminNotRun EXCEPT !.view = "exception"]
           ELSE IF DfEmpty(df)
           THEN admin' = [AdminNotRun EXCEPT !.view = "no_feedback"]
           ELSE \E sorted \in ApplySort(FilterRating(df, filter_rating), sort_by) :
                  admin' = [ view             |-> "dashboard",
                             metrics          |-> <<KeyMetrics(df)>>,
                             rating_counts    |-> RatingCounts(df),
                             feedback_by_date |-> FeedbackByDate(df),
                             filter_rating    |-> filter_rating,
                             sort_by          |-> sort_by,
                             df               |-> df,
                             displayed        |-> sorted ]
    /\ UNCHANGED <<groqKey, mongoUri, mongoUp, clock, collection, run, file>>

\* admin.py:43-44  st.rerun() (and any widget change): the page is cleared and the
\* script runs again from the top
AdminRerun ==
    /\ admin.view # "not_run"
    /\ admin' = AdminNotRun
    /\ UNCHANGED <<groqKey, mongoUri, mongoUp, clock, collection, run, file>>

(* --------------------------- specifications --------------------------- *)
Init ==
    /\ groqKey \in BOOLEAN
    /\ mongoUri \in BOOLEAN
    /\ mongoUp \in BOOLEAN
    /\ clock = 0
    /\ collection = <<>>
    /\ run = [r \in Runs |-> FreshRun]
    /\ file \in {NoFile, JsonFile(<<>>)}
    /\ admin = AdminNotRun

Next ==
    \/ \E r \in Runs, rating \in SubmitRatings, review \in Reviews :
         SubmitForm(r, rating, review)
    \/ \E r \in Runs : GenerateAiResponse(r)
    \/ \E r \in Runs : GenerateSummary(r)
    \/ \E r \in Runs : GenerateActions(r)
    \/ \E r \in Runs : BuildEntry(r)
    \/ \E r \in Runs : SaveData(r)
    \/ Tick

Spec == Init /\ [][Next]_vars

InitAdmin ==
    /\ groqKey = TRUE
    /\ mongoUri = TRUE
    /\ mongoUp = TRUE
    /\ clock = 0
    /\ collection = <<>>
    /\ run = [r \in Runs |-> FreshRun]
    /\ file \in AllFiles
    /\ admin = AdminNotRun

NextAdmin ==
    \/ \E filter_rating \in FilterChoices, sort_by \in SortOptions :
          AdminMain(filter_rating, sort_by)
    \/ AdminRerun

SpecAdmin == InitAdmin /\ [][NextAdmin]_vars

(* ------------------------------ claims -------------------------------- *)
\* "a <= b" for two ids: strings of digits of one length compare as their fields do
IdLeq(a, b) == a[1] < b[1] \/ (a[1] = b[1] /\ a[2] <= b[2])

StoreReachable == mongoUri /\ mongoUp

Stored(entry) == \E i \in 1..Len(collection) : EntryOf(collection[i]) = entry

RECURSIVE TotalSaves(_)
TotalSaves(rs) ==
    IF rs = {} THEN 0
    ELSE LET r == CHOOSE x \in rs : TRUE IN run[r].saves + TotalSaves(rs \ {r})

\* C1: a submission whose review is empty or whitespace-only ends rejected, with no
\* derivation call made, no entry built and save_data never invoked; and every
\* record in the store has a rating in 1..5 and a review that is not blank.
C1_BlankReviewRejected ==
    /\ \A r \in Runs :
         (run[r].pc # "form" /\ Strip(run[r].review) = <<>>) =>
             /\ run[r].pc = "done"
             /\ run[r].outcome = "rejected"
             /\ run[r].shown = {"error_review"}
             /\ run[r].calls = {}
             /\ run[r].entry = <<>>
             /\ run[r].saves = 0
    /\ \A i \in 1..Len(collection) :
         /\ collection[i].rating \in MinRating..MaxRating
         /\ Strip(collection[i].review) # <<>>

\* C1 witness: a whitespace-only review was rejected while another submission was stored.
C1_Witness ==
    /\ \E r \in Runs : run[r].outcome = "rejected" /\ run[r].review = <<" ", " ">>
    /\ Len(collection) >= 1

\* C2 (as claimed): every valid submission that has run to its end while the store
\* is reachable has put exactly one record into the store.
C2_ExactlyOneRecord ==
    \A r \in Runs :
        (run[r].pc = "done" /\ ~ReviewIsBlank(run[r].review) /\ StoreReachable) =>
            /\ run[r].saves = 1
            /\ run[r].entry # <<>>
            /\ Stored(run[r].entry[1])

\* C2, where the credential is present: the claim holds of every run.
C2_HoldsWithCredential == groqKey => C2_ExactlyOneRecord

\* C3 (as claimed): a run in which a derivation met a provider fault (a missing
\* credential included) still attempted all three derivations, was not aborted,
\* and built an entry with the fallback in each failed field and the provider's
\* text in the others.
C3_FaultIsolated ==
    \A r \in Runs :
        (run[r].pc = "done" /\ run[r].faults # {}) =>
            /\ run[r].calls = Derivations
            /\ run[r].outcome # "stopped_no_groq_key"
            /\ run[r].entry # <<>>
            /\ run[r].entry[1].ai_response =
                 GenerateAiResponseText("response" \in run[r].faults)
            /\ run[r].entry[1].ai_summary =
                 GenerateSummaryText("summary" \in run[r].faults)
            /\ run[r].entry[1].ai_actions =
                 GenerateActionsText("actions" \in run[r].faults)

\* C3, where the credential is present: the claim holds of every run.
C3_HoldsWithCredential == groqKey => C3_FaultIsolated

\* C4: the success message is shown only for a run whose entry is in the store; a
\* run whose store write failed ends in a failure state that shows an error and no
\* success message, and leaves nothing in the store.
C4_StoreFailureIsFailure ==
    /\ \A r \in Runs :
         "success" \in run[r].shown =>
             run[r].saves = 1 /\ run[r].entry # <<>> /\ Stored(run[r].entry[1])
    /\ \A r \in Runs :
         (run[r].pc = "done" /\ run[r].entry # <<>> /\ ~StoreReachable) =>
             /\ run[r].outcome \in {"stopped_no_mongo_uri", "store_exception"}
             /\ run[r].shown \cap {"error_mongo_uri", "exception"} # {}
             /\ "success" \notin run[r].shown
             /\ run[r].saves = 0
             /\ ~Stored(run[r].entry[1])
    /\ Len(collection) = TotalSaves(Runs)

\* C4 witness: insert_one raised for a run that had built its entry.
C4_Witness ==
    \E r \in Runs : run[r].outcome = "store_exception" /\ run[r].entry # <<>>

\* C5 (as claimed): a run of the dashboard over a missing file never renders what
\* it renders for a file holding zero records.
C5_MissingIsNotEmpty ==
    (admin.view # "not_run" /\ ~file.exists) => admin.view # "no_feedback"

\* C6 (as claimed): every entry the submit path saved is among the records the
\* dashboard's load_data returns, equal in every field.
C6_RoundTrip ==
    \A r \in Runs :
        run[r].outcome = "persisted" =>
            \E j \in 1..Len(AdminLoadData(file).data) :
                AdminLoadData(file).data[j] = run[r].entry[1]

\* The rows of df the filter keeps, by index.
KeptIdx ==
    { admin.df[i].idx :
        i \in { j \in 1..Len(admin.df) : admin.df[j].rating \in admin.filter_rating } }

SortKey == IF admin.sort_by \in {"Newest First", "Oldest First"} THEN "timestamp" ELSE "rating"

SortAscending == admin.sort_by \in {"Oldest First", "Lowest Rating"}

\* C7 (amended): the displayed list holds exactly the rows whose rating is in the
\* filter, each once, in the order of the sort key the selectbox names.
C7_FilterAndSort ==
    admin.view = "dashboard" =>
        /\ { admin.displayed[i].idx : i \in 1..Len(admin.displayed) } = KeptIdx
        /\ Len(admin.displayed) = Cardinality(KeptIdx)
        /\ \A i \in 1..Len(admin.displayed) :
             admin.displayed[i] = admin.df[admin.displayed[i].idx + 1]
        /\ \A i \in 1..(Len(admin.displayed) - 1) :
             IF SortAscending
             THEN admin.displayed[i][SortKey] <= admin.displayed[i + 1][SortKey]
             ELSE admin.displayed[i][SortKey] >= admin.displayed[i + 1][SortKey]

\* C7 (as claimed): as C7_FilterAndSort, and rows that tie on the sort key are in
\* ascending id order.
C7_TiesByIdAscending ==
    admin.view = "dashboard" =>
        /\ C7_FilterAndSort
        /\ \A i, j \in 1..Len(admin.displayed) :
             (i < j /\ admin.displayed[i][SortKey] = admin.displayed[j][SortKey]) =>
                 IdLeq(admin.displayed[i].id, admin.displayed[j].id)

\* C7 witness: under a filter that is not the default, two displayed rows tie on
\* the rating they are sorted by and differ in id.
C7_Witness ==
    /\ admin.view = "dashboard"
    /\ admin.sort_by = "Highest Rating"
    /\ admin.filter_rating # Ratings
    /\ \E i \in 1..(Len(admin.displayed) - 1) :
         /\ admin.displayed[i].rating = admin.displayed[i + 1].rating
         /\ admin.displayed[i].id # admin.displayed[i + 1].id

RatingsPresent == { admin.df[i].rating : i \in 1..Len(admin.df) }

CountOfRating(k) == Cardinality({ i \in 1..Len(admin.df) : admin.df[i].rating = k })

RECURSIVE SumOver(_, _)
SumOver(f, ks) ==
    IF ks = {} THEN 0
    ELSE LET k == CHOOSE x \in ks : TRUE IN f[k] + SumOver(f, ks \ {k})

\* C8 (amended): the histogram has a key for exactly the ratings that occur, each
\* mapped to the number of records with that rating, and the counts sum to the
\* record count; a rating no record has is absent, not zero.
C8_KeysOfOccurringRatings ==
    admin.view = "dashboard" =>
        /\ DOMAIN admin.rating_counts = RatingsPresent
        /\ \A k \in DOMAIN admin.rating_counts : admin.rating_counts[k] = CountOfRating(k)
        /\ SumOver(admin.rating_counts, DOMAIN admin.rating_counts) = Len(admin.df)

\* C8 (as claimed): the histogram has all five keys 1..5, each mapped to the number
\* of records with that rating, and the counts sum to the record count.
C8_AllFiveKeys ==
    admin.view = "dashboard" =>
        /\ DOMAIN admin.rating_counts = Ratings
        /\ \A k \in DOMAIN admin.rating_counts : admin.rating_counts[k] = CountOfRating(k)
        /\ SumOver(admin.rating_counts, DOMAIN admin.rating_counts) = Len(admin.df)

\* C8 witness: two records share a rating and some rating has no record.
C8_Witness ==
    /\ admin.view = "dashboard"
    /\ \E k \in Ratings : CountOfRating(k) = 2
    /\ \E k \in Ratings : CountOfRating(k) = 0

EmptyRecordSet == file.exists /\ file.valid /\ file.data = <<>>

\* The metrics of the claim over the rows of df, from the per-rating counts.
MetricsAsClaimed ==
    /\ Len(admin.metrics) = 1
    /\ admin.metrics[1].total = Len(admin.df)
    /\ admin.metrics[1].avg_rating.den = Len(admin.df)
    /\ admin.metrics[1].avg_rating.num =
         SumOver([k \in Ratings |-> k * CountOfRating(k)], Ratings)
    /\ admin.metrics[1].positive_pct.den = Len(admin.df)
    /\ admin.metrics[1].positive_pct.num =
         100 * SumOver([k \in Ratings |-> CountOfRating(k)], 4..5)
    /\ admin.metrics[1].negative =
         SumOver([k \in Ratings |-> CountOfRating(k)], 1..2)

\* C9 (amended): over an empty record sequence main() returns before any metric is
\* computed (no mean, no positive rate, no division); over a non-empty one the mean
\* is the sum of the ratings over the count, the positive rate the number of
\* ratings >= 4 over the count, the negative count the number of ratings <= 2; no
\* quotient has a zero denominator.
C9_Metrics ==
    /\ (admin.view = "no_feedback" => admin.metrics = <<>>)
    /\ (admin.view # "not_run" /\ EmptyRecordSet => admin.view = "no_feedback")
    /\ (admin.view = "dashboard" => MetricsAsClaimed)
    /\ \A i \in 1..Len(admin.metrics) :
         admin.metrics[i].avg_rating.den # 0 /\ admin.metrics[i].positive_pct.den # 0

\* C9 (as claimed): over an empty record sequence the run yields a mean of 0 and a
\* positive rate of 0; over a non-empty one the metrics are as in C9_Metrics.
C9_EmptyMeanIsZero ==
    /\ (admin.view # "not_run" /\ EmptyRecordSet) =>
           /\ Len(admin.metrics) = 1
           /\ admin.metrics[1].avg_rating.num = 0
           /\ admin.metrics[1].positive_pct.num = 0
    /\ (admin.view = "dashboard" => MetricsAsClaimed)

\* C9 witness: the dashboard ran over a file holding zero records.
C9_Witness == admin.view = "no_feedback" /\ EmptyRecordSet

\* C10 (as claimed): no two records in the store have the same id.
C10_UniqueIds ==
    \A i, j \in 1..Len(collection) : i # j => collection[i].id # collection[j].id

\* C10, second half: a stored record carries the id its run built.
C10_IdKeptInStore ==
    \A r \in Runs : run[r].outcome = "persisted" => Stored(run[r].entry[1])

====
